---- MODULE Spec2Model ----
(***************************************************************************)
(* A model of cloudperf/providers/aws_helpers.py: the benchmark pipeline   *)
(* run_benchmarks (create loop, waiter, ssh connect, quiesce, image pull,  *)
(* cpu sweep, terminate), the freshness filter get_benchmarks_to_run and   *)
(* the coordinator get_ec2_performance.                                    *)
(***************************************************************************)
EXTENDS Integers, Sequences, FiniteSets, TLC

VARIABLES
    py3,                \* the interpreter running the module is Python 3
    ami,                \* args[0]: the image descriptor
    instance,           \* args[1]: the offer row
    benchmarks_to_run,  \* args[2]: the names of the dict, in iteration order
    pc,                 \* position of run_benchmarks
    ret,                \* how run_benchmarks ended
    specs,              \* the on-demand request
    create_specs,       \* the request the next run_instances call uses
    retcount,           \* the attempt counter of the create loop
    ec2_inst,           \* the created instance, or None
    err,                \* outcome of the last run_instances call
    backoff,            \* exponent of the sleep of the last loop iteration
    last_request,       \* the request the last run_instances call was given
    faults,             \* failures run_instances may still answer with
    creates,            \* run_instances calls made so far
    terminates,         \* terminate_instances calls made so far
    terminated,         \* the InstanceIds terminate_instances was called with
    elapsed,            \* get_ssh_connection: time.time() - start
    ssh,                \* the ssh connection, or None
    waiter,             \* how the instance_running waiter ended
    ec,                 \* exit status of the last remote command
    i,                  \* the loop variable i of lines 476, 494 and 508
    todo,               \* the benchmarks the for loop has not reached yet
    bench,              \* name: the benchmark being run
    cpulist,            \* the cpu sweep of the benchmark being run
    ci,                 \* position in cpulist (1-based)
    it,                 \* passes of the loop of line 512 made for this cpu-count
    scores,             \* the samples of the current cpu-count
    results,            \* the rows appended so far
    prices_df,          \* get_ec2_performance: the offers, in row order
    perf_df,            \* the historical results, or not given
    update,             \* the update flag
    expire,             \* the freshness window in seconds
    fpc,                \* position of get_ec2_performance
    bench_args,         \* the argument lists collected for the pool
    pool,               \* pool.map: the tasks queued, running and ended
    output              \* what get_ec2_performance ended with

provVars == <<specs, create_specs, retcount, ec2_inst, err, backoff,
              last_request, faults, creates>>

runVars == <<elapsed, ssh, waiter, ec, i, todo, bench, cpulist, ci, it,
             scores, results>>

fleetVars == <<prices_df, perf_df, update, expire, fpc, bench_args, pool,
              output>>

argVars == <<py3, instance, benchmarks_to_run, fleetVars>>

vars == <<py3, ami, instance, benchmarks_to_run, pc, ret, specs, create_specs,
          retcount, ec2_inst, err, backoff, last_request, faults, creates,
          terminates, terminated, elapsed, ssh, waiter, ec, i, todo, bench,
          cpulist, ci, it, scores, results, prices_df, perf_df, update, expire, fpc,
          bench_args, pool, output>>

None == "None"
\* backoff: <<>> when the iteration did not sleep, <<n>> after sleep(1.2**n)
NoSleep == <<>>
\* a request that has not been built yet
NoRequest == [ImageId |-> None, Encrypted |-> FALSE, InstanceType |-> None,
              CpuCredits |-> None, MarketType |-> None]

\* ------------------------------------------------------------------ bounds
MaxVcpu == 2
MaxFaults == 2
MaxProvFaults == 33
MaxFleetFaults == 1
MaxOffers == 2
MaxPerfRows == 2
MaxTasks == 34

\* ------------------------------------------------------- program constants
MaxRetries == 16

Archs == {"x86_64", "arm64"}
InstanceTypes == {"t3.xlarge", "c5.large"}

\* re.match('^t[0-9]+\.', instanceType) over the instance types of the model
IsBurstable(instanceType) == instanceType \in {"t3.xlarge"}

\* The module-level benchmark definitions (cloudperf.benchmarks.benchmarks):
\* images: the architectures with a docker image; cpus: the explicit cpu
\* list (<<>>: the key is absent or empty); iterations: <<>> when the key is absent.
BenchNames == <<"bC", "bA", "bB">>
benchmarks ==
    [n \in {"bA", "bB", "bC"} |->
        IF n = "bA"
        THEN [images |-> {"x86_64", "arm64"}, cpus |-> <<>>, iterations |-> <<>>]
        ELSE IF n = "bB"
        THEN [images |-> {"x86_64"}, cpus |-> <<1, 4>>, iterations |-> <<2>>]
        ELSE [images |-> {"x86_64"}, cpus |-> <<2, 1>>, iterations |-> <<1>>]]

\* The non-empty dicts get_ec2_performance can pass as benchmarks_to_run.
BenchDicts == {<<"bA", "bB">>, <<"bA">>, <<"bB">>, <<"bC", "bA">>}

\* ----------------------------------------------------- the create request
\* specs after lines 350-362
Specs(a, inst) ==
    [ImageId |-> a.ImageId,
     Encrypted |-> a.Encrypted,
     InstanceType |-> inst.instanceType,
     CpuCredits |-> IF IsBurstable(inst.instanceType) THEN "unlimited" ELSE None,
     MarketType |-> None]

\* SpotSpecs built without the CreditSpecification of lines 360-362
SpotSpecsDropsCredits(s) ==
    [s EXCEPT !.MarketType = "spot", !.CpuCredits = None]

\* spotspecs, lines 363-370
SpotSpecs(s) == [s EXCEPT !.MarketType = "spot"]

\* ------------------------------------------------ classification of errors
ErrorCodes == {"RequestLimitExceeded", "InsufficientInstanceCapacity",
               "SpotMaxPriceTooLow", "MissingParameter",
               "InvalidParameterValue", "Unsupported", "OtherCode",
               "Exception"}

\* Classify with InvalidParameterValue falling through to the last branch
ClassifyRetryInvalid(code) ==
    CASE code = "RequestLimitExceeded" -> "retry"
      [] code = "InsufficientInstanceCapacity" -> "fallback"
      [] code = "SpotMaxPriceTooLow" -> "fallback"
      [] code = "MissingParameter" -> "fail"
      [] code = "Unsupported" -> "fail"
      [] OTHER -> "retry"

\* The if-chain of the except clauses, lines 380-440.
Classify(code) ==
    CASE code = "RequestLimitExceeded" -> "retry"
      [] code = "InsufficientInstanceCapacity" -> "fallback"
      [] code = "SpotMaxPriceTooLow" -> "fallback"
      [] code = "MissingParameter" -> "fail"
      [] code = "InvalidParameterValue" -> "fail"
      [] code = "Unsupported" -> "fail"
      [] OTHER -> "retry"

\* FallbackSpecs without the assignment create_specs = specs
FallbackKeepsSpecs(s, cs) == cs

\* lines 393-394 and 408-409: the request and the counter after a fallback
FallbackSpecs(s, cs) == s
FallbackRetcount(n) == 0

\* the while condition, line 376
LoopContinues(n) == n < MaxRetries

\* ------------------------------------------------------------ run_benchmarks
Return(v) == /\ pc' = "returned"
             /\ ret' = v

\* lines 349-375
Start ==
    /\ pc = "start"
    /\ ami' = [ami EXCEPT !.Encrypted = FALSE]
    /\ specs' = Specs(ami', instance)
    /\ create_specs' = SpotSpecs(specs')
    /\ retcount' = 0
    /\ ec2_inst' = None
    /\ pc' = "create"
    /\ UNCHANGED <<ret, err, backoff, last_request, faults, creates,
                   terminates, terminated>>
    /\ UNCHANGED argVars
    /\ UNCHANGED runVars

\* One run_instances call: what every iteration of the loop does first.
Attempt(code) ==
    /\ pc = "create"
    /\ creates' = creates + 1
    /\ last_request' = create_specs
    /\ err' = code
    /\ UNCHANGED <<ami, specs, terminates, terminated>>
    /\ UNCHANGED argVars
    /\ UNCHANGED runVars

Fault(code) ==
    /\ faults > 0
    /\ faults' = faults - 1
    /\ Attempt(code)

\* CreateOk without the break of line 379
CreateOkKeepsLooping ==
    /\ Attempt("ok")
    /\ ec2_inst' = "i-1"
    /\ backoff' = NoSleep
    /\ pc' = "create"
    /\ UNCHANGED <<create_specs, retcount, faults, ret>>

\* lines 378-379, 442, 445
CreateOk ==
    /\ Attempt("ok")
    /\ ec2_inst' = "i-1"
    /\ backoff' = NoSleep
    /\ pc' = "wait"
    /\ UNCHANGED <<create_specs, retcount, faults, ret>>

\* lines 382-387, 431-434, 436-440, then the loop condition and 442-443
CreateRetry ==
    \E code \in ErrorCodes :
        /\ Classify(code) = "retry"
        /\ Fault(code)
        /\ backoff' = <<retcount>>
        /\ retcount' = retcount + 1
        /\ IF LoopContinues(retcount')
           THEN pc' = "create" /\ ret' = ret
           ELSE Return(None)
        /\ UNCHANGED <<create_specs, ec2_inst>>

\* lines 389-395 and 397-410
CreateFallback ==
    \E code \in ErrorCodes :
        /\ Classify(code) = "fallback"
        /\ Fault(code)
        /\ create_specs' = FallbackSpecs(specs, create_specs)
        /\ retcount' = FallbackRetcount(retcount)
        /\ backoff' = NoSleep
        /\ IF LoopContinues(retcount')
           THEN pc' = "create" /\ ret' = ret
           ELSE Return(None)
        /\ UNCHANGED <<ec2_inst>>

\* lines 412-429, then 442-443.  base64.b64encode(str(...)) of line 428
\* raises TypeError under Python 3, inside the except clause.
CreateInvalid ==
    \E code \in ErrorCodes :
        /\ Classify(code) = "fail"
        /\ Fault(code)
        /\ backoff' = NoSleep
        /\ IF code = "Unsupported" /\ py3
           THEN Return("raised")
           ELSE Return(None)
        /\ UNCHANGED <<create_specs, retcount, ec2_inst>>

\* ---------------------------------------------------- after the create loop
\* the cost in seconds of one failed ssh.connect and its sleep(5)
ConnectCosts == {200, 300}
\* the scores a benchmark command can print
ScoreValues == {1, 2}
\* a sample that is None (line 524)
NoScore == 0
\* no remote command has ended yet
NoStatus == -1
\* what max() raises
ValueError == -1
TypeError == -2

ssh_get_conn_timeout == 600
StageTries == 4
DefaultIterations == 3

\* bench_data.get('iterations', 3), line 512
Iterations(bd) ==
    IF bd.iterations = <<>> THEN DefaultIterations ELSE bd.iterations[1]

\* CpuList with range(1, instance.vcpu) for the default sweep
CpuListOffByOne(bd, vcpu) ==
    IF bd.cpus # <<>> THEN bd.cpus ELSE [k \in 1..(vcpu - 1) |-> k]

\* lines 504-507
CpuList(bd, vcpu) ==
    IF bd.cpus # <<>> THEN bd.cpus ELSE [k \in 1..vcpu |-> k]

Range(s) == {s[k] : k \in DOMAIN s}
MaxOf(S) == CHOOSE m \in S : \A x \in S : x <= m

\* The builtin max, the default of bench_data.get('score_aggregation', max),
\* line 527: an empty list raises ValueError; Python 3 cannot order None and
\* raises TypeError as soon as it compares two items one of which is None;
\* Python 2 orders None below every number.
PyMax(sc, isPy3) ==
    IF sc = <<>> THEN ValueError
    ELSE IF Len(sc) = 1 THEN sc[1]
    ELSE IF isPy3 /\ NoScore \in Range(sc) THEN TypeError
    ELSE MaxOf(Range(sc))

\* lines 529-533
Row(inst, name, cpu, score) ==
    [instanceType |-> inst.instanceType, benchmark_cpus |-> cpu,
     benchmark_score |-> score, benchmark_id |-> name]

\* ec2.terminate_instances(InstanceIds=[instance_id]), lines 469 and 536;
\* instance_id is the InstanceId of ec2_inst (line 445), which is what
\* ec2_inst holds here
Terminate == /\ terminates' = terminates + 1
             /\ terminated' = Append(terminated, ec2_inst)

RunUnchanged == /\ UNCHANGED <<ami>>
                /\ UNCHANGED argVars
                /\ UNCHANGED provVars

\* lines 447-462: the waiter returns, or raises and is logged
WaitRunning ==
    /\ pc = "wait"
    /\ \E ok \in BOOLEAN : waiter' = IF ok THEN "running" ELSE "failed"
    /\ pc' = "key"
    /\ RunUnchanged
    /\ UNCHANGED <<ret, terminates, terminated>>
    /\ UNCHANGED <<elapsed, ssh, ec, i, todo, bench, cpulist, ci, it, scores,
                   results>>

\* lines 463-464, and 332-334 of get_ssh_connection
LoadKey ==
    /\ pc = "key"
    /\ \E ok \in BOOLEAN :
        IF ok THEN pc' = "connect" /\ ret' = ret ELSE Return("raised")
    /\ elapsed' = 0
    /\ RunUnchanged
    /\ UNCHANGED <<terminates, terminated, ssh, waiter, ec, i, todo, bench, cpulist, ci, it,
                   scores,
                   results>>

\* get_ssh_connection, one pass of the loop of lines 335-342 with a
\* successful connect, then lines 345, 465-466, 473 and 476
ConnectOk ==
    /\ pc = "connect"
    /\ ssh' = "ssh"
    /\ elapsed' = 0
    /\ i' = 0
    /\ pc' = "quiesce"
    /\ RunUnchanged
    /\ UNCHANGED <<ret, terminates, terminated, waiter, ec, todo, bench, cpulist, ci, it,
                   scores,
                   results>>

\* the loop condition with the deadline itself still inside the loop
ConnectContinuesInclusive(e) == e <= ssh_get_conn_timeout

\* the loop condition of line 335
ConnectContinues(e) == e < ssh_get_conn_timeout

\* one pass of the loop with a connection exception; when the loop
\* condition then fails: lines 343-344 and 465-470
ConnectFail ==
    /\ pc = "connect"
    /\ \E d \in ConnectCosts :
        IF ConnectContinues(elapsed + d)
        THEN /\ elapsed' = elapsed + d
             /\ pc' = "connect"
             /\ UNCHANGED <<ret, terminates, terminated>>
        ELSE /\ elapsed' = 0
             /\ Terminate
             /\ Return(None)
    /\ RunUnchanged
    /\ UNCHANGED <<ssh, waiter, ec, i, todo, bench, cpulist, ci, it, scores,
                   results>>

ExecOutcomes == {"zero", "nonzero", "raise"}

\* stdout.channel.recv_exit_status(), lines 479, 497 and 515; exec_command
\* that raises gives no exit status
ExitStatus(out, old) ==
    IF out = "raise" THEN old ELSE IF out = "zero" THEN 0 ELSE 1

\* StageEnds with one more pass allowed
StageEndsLate(out, k) == out = "zero" \/ k + 1 >= StageTries + 1

\* whether a pass of the loops of lines 476 and 494 is the last one
StageEnds(out, k) == out = "zero" \/ k + 1 >= StageTries

\* the loop of lines 476-485, one pass; then line 487
Quiesce ==
    /\ pc = "quiesce"
    /\ \E out \in ExecOutcomes :
      /\ ec' = ExitStatus(out, ec)
      /\ CASE out = "raise" ->
                /\ Return("raised")
                /\ UNCHANGED <<i, todo, results>>
          [] out # "raise" /\ StageEnds(out, i) ->
                /\ pc' = "bench"
                /\ todo' = benchmarks_to_run
                /\ results' = <<>>
                /\ UNCHANGED <<i, ret>>
          [] OTHER ->
                /\ i' = i + 1
                /\ pc' = "quiesce"
                /\ UNCHANGED <<ret, todo, results>>
    /\ RunUnchanged
    /\ UNCHANGED <<terminates, terminated, elapsed, ssh, waiter, bench, cpulist, ci, it,
                   scores>>

\* bench_data['images'].get(instance.cpu_arch, None), line 489
HasImage(bd, arch) == arch \in bd.images

\* lines 488-492: a benchmark without an image for the architecture
SkipBench ==
    /\ pc = "bench"
    /\ todo # <<>>
    /\ ~HasImage(benchmarks[Head(todo)], instance.cpu_arch)
    /\ bench' = Head(todo)
    /\ todo' = Tail(todo)
    /\ RunUnchanged
    /\ UNCHANGED <<pc, ret, terminates, terminated, elapsed, ssh, waiter, ec, i, cpulist,
                   ci, it,
                   scores, results>>

\* lines 488-494: the next benchmark, which has an image
StartBench ==
    /\ pc = "bench"
    /\ todo # <<>>
    /\ HasImage(benchmarks[Head(todo)], instance.cpu_arch)
    /\ bench' = Head(todo)
    /\ todo' = Tail(todo)
    /\ i' = 0
    /\ pc' = "pull"
    /\ RunUnchanged
    /\ UNCHANGED <<ret, terminates, terminated, elapsed, ssh, waiter, ec, cpulist, ci, it,
                   scores,
                   results>>

\* EnterCpu with the image pulled again once the sweep is over
EnterCpuPullsAgain(k, list, bd) ==
    IF k > Len(list) THEN "pull"
    ELSE IF Iterations(bd) > 0 THEN "iter" ELSE "aggr"

\* where the sweep goes for the cpu-count at position k: lines 508-512
EnterCpu(k, list, bd) ==
    IF k > Len(list) THEN "bench"
    ELSE IF Iterations(bd) > 0 THEN "iter" ELSE "aggr"

\* SweepVars with the list walked from its last item
SweepVarsReversed(k, list) ==
    IF k <= Len(list)
    THEN i' = list[Len(list) + 1 - k] /\ scores' = <<>>
    ELSE UNCHANGED <<i, scores>>

\* lines 508 and 511: i and scores when the sweep moves to position k
SweepVars(k, list) ==
    IF k <= Len(list)
    THEN i' = list[k] /\ scores' = <<>>
    ELSE UNCHANGED <<i, scores>>

\* the loop of lines 494-502, one pass; then lines 504-511
Pull ==
    /\ pc = "pull"
    /\ \E out \in ExecOutcomes :
      /\ ec' = ExitStatus(out, ec)
      /\ CASE out = "raise" ->
                /\ Return("raised")
                /\ UNCHANGED <<i, cpulist, ci, it, scores>>
          [] out # "raise" /\ StageEnds(out, i) ->
                /\ cpulist' = CpuList(benchmarks[bench], instance.vcpu)
                /\ ci' = 1
                /\ it' = 0
                /\ SweepVars(1, cpulist')
                /\ pc' = EnterCpu(1, cpulist', benchmarks[bench])
                /\ ret' = ret
          [] OTHER ->
                /\ i' = i + 1
                /\ pc' = "pull"
                /\ UNCHANGED <<ret, cpulist, ci, it, scores>>
    /\ RunUnchanged
    /\ UNCHANGED <<terminates, terminated, elapsed, ssh, waiter, todo, bench, results>>

\* what one run of the command ends with: it raises (the session broke),
\* exits non-zero, exits 0 with unparsable output, or exits 0 with a score
IterOutcomes ==
    [kind : {"raise", "nonzero", "unparsable"}, stdo : {NoScore}]
        \cup [kind : {"score"}, stdo : ScoreValues]

\* lines 518-526: the samples after one run of the command
Sampled(sc, out) ==
    IF out.kind = "nonzero" THEN sc
    ELSE IF out.kind = "unparsable" THEN Append(sc, NoScore)
    ELSE Append(sc, out.stdo)

\* lines 512-526, one pass
RunIteration ==
    /\ pc = "iter"
    /\ \E out \in IterOutcomes :
      /\ ec' = ExitStatus(IF out.kind \in {"raise", "nonzero"}
                          THEN out.kind ELSE "zero", ec)
      /\ IF out.kind = "raise"
        THEN /\ Return("raised")
             /\ UNCHANGED <<it, scores>>
        ELSE /\ scores' = Sampled(scores, out)
             /\ it' = it + 1
             /\ pc' = IF it' < Iterations(benchmarks[bench]) THEN "iter" ELSE "aggr"
             /\ ret' = ret
    /\ RunUnchanged
    /\ UNCHANGED <<terminates, terminated, elapsed, ssh, waiter, i, todo, bench, cpulist,
                   ci, results>>

\* lines 527-533, then lines 508-511 for the next cpu-count
Aggregate ==
    /\ pc = "aggr"
    /\ LET score == PyMax(scores, py3) IN
        IF score \in {ValueError, TypeError}
        THEN /\ Return("raised")
             /\ UNCHANGED <<results, ci, it, i, scores>>
        ELSE /\ results' = Append(results, Row(instance, bench, i, score))
             /\ ci' = ci + 1
             /\ it' = 0
             /\ SweepVars(ci', cpulist)
             /\ pc' = EnterCpu(ci', cpulist, benchmarks[bench])
             /\ ret' = ret
    /\ RunUnchanged
    /\ UNCHANGED <<terminates, terminated, elapsed, ssh, waiter, ec, todo, bench, cpulist>>

\* lines 535-538
Finish ==
    /\ pc = "bench"
    /\ todo = <<>>
    /\ Terminate
    /\ Return("DataFrame")
    /\ RunUnchanged
    /\ UNCHANGED runVars

\* ------------------------------------------------------ get_benchmarks_to_run
\* the seconds in a day: timedelta normalises to days, seconds, microseconds
SecondsPerDay == 86400

\* (datetime.now() - row.date).seconds, line 546: the seconds field of the
\* normalised timedelta, for a row whose age is `age` seconds
TimedeltaSeconds(age) == age % SecondsPerDay

\* line 546: the row is left alone
Expired(age, exp) == TimedeltaSeconds(age) >= exp

\* lines 544-550: the benchmark ids the loop pops
Popped(inst, rows, exp) ==
    {r.benchmark_id : r \in {x \in rows : /\ x.instanceType = inst.instanceType
                                          /\ ~Expired(x.age, exp)}}

\* lines 541-552: the names left in my_benchmarks, in the order of benchmarks
GetBenchmarksToRun(inst, rows, exp) ==
    SelectSeq(BenchNames, LAMBDA n : n \notin Popped(inst, rows, exp))

\* -------------------------------------------------------- get_ec2_performance
\* line 557
DropSpot(df) == SelectSeq(df, LAMBDA o : ~o.spot)

\* line 559: the first row of every instance type
RECURSIVE DropDuplicates(_, _)
DropDuplicates(df, seen) ==
    IF df = <<>> THEN <<>>
    ELSE IF Head(df).instanceType \in seen
         THEN DropDuplicates(Tail(df), seen)
         ELSE <<Head(df)>> \o
              DropDuplicates(Tail(df), seen \cup {Head(df).instanceType})

\* aws_get_latest_ami(arch=instance.cpu_arch), lines 563 and 581
LatestAmi(arch) == [ImageId |-> arch, Encrypted |-> TRUE]

\* lines 564-567
BenchmarksFor(inst, perf, upd, exp) ==
    IF perf.given /\ upd
    THEN GetBenchmarksToRun(inst, perf.rows, exp)
    ELSE BenchNames

\* the instance types line 572 lets through
Dispatched == {"t3.xlarge"}

\* lines 561-582: the loop over the rows
RECURSIVE BenchArgs(_, _, _, _)
BenchArgs(df, perf, upd, exp) ==
    IF df = <<>> THEN <<>>
    ELSE LET inst == Head(df)
             todo_ == BenchmarksFor(inst, perf, upd, exp)
             rest == BenchArgs(Tail(df), perf, upd, exp)
         IN  IF todo_ = <<>> \/ inst.instanceType \notin Dispatched
             THEN rest
             ELSE <<[ami |-> LatestAmi(inst.cpu_arch), instance |-> inst,
                     benchmarks_to_run |-> todo_]>> \o rest

NoOutput == [kind |-> "running", rows |-> <<>>]

\* no task has been handed to a pool
NoPool == [queued |-> 0, running |-> 0, done |-> 0]

pipeVars == <<ami, pc, ret, terminates, terminated, py3, instance, benchmarks_to_run>>

\* lines 556-583, and 587-588 when no offer is left
BuildArgs ==
    /\ fpc = "start"
    /\ bench_args' = BenchArgs(DropDuplicates(DropSpot(prices_df), {}),
                               perf_df, update, expire)
    /\ IF bench_args' # <<>>
       THEN fpc' = "map" /\ output' = output
       ELSE fpc' = "returned" /\ output' = [kind |-> "DataFrame", rows |-> <<>>]
    /\ UNCHANGED <<prices_df, perf_df, update, expire, pool>>
    /\ UNCHANGED pipeVars
    /\ UNCHANGED provVars
    /\ UNCHANGED runVars

\* lines 584-585: a worker of the pool takes the argument list and calls
\* run_benchmarks (line 349)
Dispatch ==
    /\ fpc = "map"
    /\ pc = "idle"
    /\ ami' = bench_args[1].ami
    /\ instance' = bench_args[1].instance
    /\ benchmarks_to_run' = bench_args[1].benchmarks_to_run
    /\ pc' = "start"
    /\ UNCHANGED <<py3, ret, terminates, terminated>>
    /\ UNCHANGED fleetVars
    /\ UNCHANGED provVars
    /\ UNCHANGED runVars

\* what pool.map hands back for the one task: None or the worker's rows
\* pd.concat, line 586: None items are dropped; it raises ValueError when
\* every item is None
Concat(r, rows) ==
    IF r = None THEN [kind |-> "raised", rows |-> <<>>]
    ELSE [kind |-> "DataFrame", rows |-> rows]

\* lines 585-586: pool.map returns the results, or re-raises what the
\* worker raised
Collect ==
    /\ fpc = "map"
    /\ pc = "returned"
    /\ output' = IF ret = "raised"
                 THEN [kind |-> "raised", rows |-> <<>>]
                 ELSE Concat(ret, results)
    /\ fpc' = "returned"
    /\ UNCHANGED <<prices_df, perf_df, update, expire, bench_args, pool>>
    /\ UNCHANGED pipeVars
    /\ UNCHANGED provVars
    /\ UNCHANGED runVars

\* line 584: the worker threads of ThreadPool(32)
PoolSizeDoubled == 32 + 32
PoolSize == 32

\* line 585, pool.map over many argument lists, every run_benchmarks call
\* taken as a whole: a worker that is free takes the next queued task (the
\* chunks of map hold one task each while the list has at most 4 * 32 items)
PoolStart ==
    /\ fpc = "map"
    /\ pool.queued > 0
    /\ pool.running < PoolSize
    /\ pool' = [pool EXCEPT !.queued = @ - 1, !.running = @ + 1]
    /\ UNCHANGED <<prices_df, perf_df, update, expire, fpc, bench_args,
                   output>>
    /\ UNCHANGED pipeVars
    /\ UNCHANGED provVars
    /\ UNCHANGED runVars

\* line 585: the run_benchmarks call of a worker returns or raises
PoolEnd ==
    /\ fpc = "map"
    /\ pool.running > 0
    /\ pool' = [pool EXCEPT !.running = @ - 1, !.done = @ + 1]
    /\ UNCHANGED <<prices_df, perf_df, update, expire, fpc, bench_args,
                   output>>
    /\ UNCHANGED pipeVars
    /\ UNCHANGED provVars
    /\ UNCHANGED runVars

\* line 585: pool.map returns when every task has ended
PoolReturn ==
    /\ fpc = "map"
    /\ pool.queued = 0
    /\ pool.running = 0
    /\ fpc' = "returned"
    /\ UNCHANGED <<prices_df, perf_df, update, expire, bench_args, pool,
                   output>>
    /\ UNCHANGED pipeVars
    /\ UNCHANGED provVars
    /\ UNCHANGED runVars

\* get_benchmarks_to_run called on its own
ApplyFilter ==
    /\ fpc = "filter"
    /\ benchmarks_to_run' = GetBenchmarksToRun(instance, perf_df.rows, expire)
    /\ fpc' = "filtered"
    /\ UNCHANGED <<prices_df, perf_df, update, expire, bench_args, pool,
                   output>>
    /\ UNCHANGED <<ami, pc, ret, terminates, terminated, py3, instance>>
    /\ UNCHANGED provVars
    /\ UNCHANGED runVars

RunBenchmarks ==
    \/ Start
    \/ CreateOk
    \/ CreateRetry
    \/ CreateFallback
    \/ CreateInvalid
    \/ WaitRunning
    \/ LoadKey
    \/ ConnectOk
    \/ ConnectFail
    \/ Quiesce
    \/ SkipBench
    \/ StartBench
    \/ Pull
    \/ RunIteration
    \/ Aggregate
    \/ Finish

Next == RunBenchmarks

NextFleet ==
    \/ BuildArgs
    \/ Dispatch
    \/ RunBenchmarks
    \/ Collect

NextFresh == ApplyFilter

NextPool ==
    \/ PoolStart
    \/ PoolEnd
    \/ PoolReturn

\* ------------------------------------------------------------ initial states
Instances ==
    [instanceType : InstanceTypes, spot : {FALSE}, vcpu : 1..MaxVcpu,
     cpu_arch : Archs]

NoInstance == [instanceType |-> None, spot |-> FALSE, vcpu |-> 0,
               cpu_arch |-> None]

NoPerf == [given |-> FALSE, rows |-> {}]

InitLocals ==
    /\ ret = "running"
    /\ specs = NoRequest
    /\ create_specs = NoRequest
    /\ retcount = 0
    /\ ec2_inst = None
    /\ err = None
    /\ backoff = NoSleep
    /\ last_request = NoRequest
    /\ creates = 0
    /\ terminates = 0
    /\ terminated = <<>>
    /\ elapsed = 0
    /\ ssh = None
    /\ waiter = None
    /\ ec = NoStatus
    /\ i = 0
    /\ todo = <<>>
    /\ bench = None
    /\ cpulist = <<>>
    /\ ci = 0
    /\ it = 0
    /\ scores = <<>>
    /\ results = <<>>

\* run_benchmarks called with one argument list
InitCall ==
    /\ InitLocals
    /\ py3 \in BOOLEAN
    /\ pc = "start"
    /\ prices_df = <<>>
    /\ perf_df = NoPerf
    /\ update = FALSE
    /\ expire = 0
    /\ fpc = "idle"
    /\ bench_args = <<>>
    /\ pool = NoPool
    /\ output = NoOutput

Init ==
    /\ InitCall
    /\ instance \in Instances
    /\ ami = LatestAmi(instance.cpu_arch)
    /\ benchmarks_to_run \in BenchDicts
    /\ faults = MaxFaults

InitProv ==
    /\ InitCall
    /\ instance = [instanceType |-> "t3.xlarge", spot |-> FALSE, vcpu |-> 1,
                   cpu_arch |-> "arm64"]
    /\ ami = LatestAmi(instance.cpu_arch)
    /\ benchmarks_to_run = <<"bA", "bB">>
    /\ faults = MaxProvFaults

\* the offers of the catalog
Offers ==
    {[instanceType |-> "t3.xlarge", spot |-> FALSE, vcpu |-> 1,
      cpu_arch |-> "arm64"],
     [instanceType |-> "t3.xlarge", spot |-> TRUE, vcpu |-> 1,
      cpu_arch |-> "arm64"],
     [instanceType |-> "c5.large", spot |-> FALSE, vcpu |-> 2,
      cpu_arch |-> "x86_64"]}

SeqsUpTo(S, n) == UNION {[1..k -> S] : k \in 0..n}

\* the ages in seconds of the historical results
Ages == {0, 600, 3600, 87000}
Expires == {60, 3600}
PerfRows == [instanceType : InstanceTypes, benchmark_id : {"bA", "bB"},
             age : Ages]
SetsUpTo(S, n) == {T \in SUBSET S : Cardinality(T) <= n}

InitFleet ==
    /\ InitLocals
    /\ py3 \in BOOLEAN
    /\ ami = LatestAmi("x86_64")
    /\ instance = NoInstance
    /\ benchmarks_to_run = <<>>
    /\ pc = "idle"
    /\ faults = MaxFleetFaults
    /\ prices_df \in SeqsUpTo(Offers, MaxOffers)
    /\ perf_df \in {NoPerf} \cup
          [given : {TRUE},
           rows : {{}, {[instanceType |-> "t3.xlarge", benchmark_id |-> "bA",
                         age |-> 600]},
                   {[instanceType |-> "t3.xlarge", benchmark_id |-> b,
                         age |-> 600] : b \in {"bA", "bB"}}}]
    /\ update \in BOOLEAN
    /\ expire \in Expires
    /\ fpc = "start"
    /\ bench_args = <<>>
    /\ pool = NoPool
    /\ output = NoOutput

InitFresh ==
    /\ InitLocals
    /\ py3 = TRUE
    /\ ami = LatestAmi("x86_64")
    /\ instance \in {x \in Instances : x.vcpu = 1 /\ x.cpu_arch = "x86_64"}
    /\ benchmarks_to_run = <<>>
    /\ pc = "idle"
    /\ faults = 0
    /\ prices_df = <<>>
    /\ perf_df \in [given : {TRUE}, rows : SetsUpTo(PerfRows, MaxPerfRows)]
    /\ update = TRUE
    /\ expire \in Expires
    /\ fpc = "filter"
    /\ bench_args = <<>>
    /\ pool = NoPool
    /\ output = NoOutput

\* pool.map handed n argument lists
InitPool ==
    /\ InitLocals
    /\ py3 = TRUE
    /\ ami = LatestAmi("arm64")
    /\ instance = NoInstance
    /\ benchmarks_to_run = <<>>
    /\ pc = "idle"
    /\ faults = 0
    /\ prices_df = <<>>
    /\ perf_df = NoPerf
    /\ update = FALSE
    /\ expire = 0
    /\ fpc = "map"
    /\ \E n \in 1..MaxTasks :
          /\ bench_args = [k \in 1..n |->
                             [ami |-> LatestAmi("arm64"),
                              instance |-> [instanceType |-> "t3.xlarge",
                                            spot |-> FALSE, vcpu |-> 1,
                                            cpu_arch |-> "arm64"],
                              benchmarks_to_run |-> BenchNames]]
          /\ pool = [queued |-> n, running |-> 0, done |-> 0]
    /\ output = NoOutput

Spec == Init /\ [][Next]_vars
ProvSpec == InitProv /\ [][Next]_vars
FleetSpec == InitFleet /\ [][NextFleet]_vars
FreshSpec == InitFresh /\ [][NextFresh]_vars
PoolSpec == InitPool /\ [][NextPool]_vars
\* ------------------------------------------------------------------ claims
Returned == pc = "returned"

\* C1: in every run of run_benchmarks that created an instance, exactly one
\* terminate call for it has been made when the run ends, however it ends
\* (rows returned, None returned, or an exception raised).
C1_TerminatedOnEveryExit ==
    (Returned /\ ec2_inst # None) => terminates = 1

\* C2: get_ec2_performance never ends with an exception because the
\* dispatched pipeline failed, and what it returns holds the rows of the
\* pipeline that succeeded.
C2_CoordinatorNeverFails ==
    fpc = "returned" =>
        /\ output.kind = "DataFrame"
        /\ (ret = "DataFrame" => output.rows = results)

\* C3: the create loop makes a bounded number of run_instances calls: at
\* most MaxRetries in the spot state and MaxRetries in the on-demand state,
\* whatever errors the control plane returns.
C3_BoundedCreateAttempts == creates <= 2 * MaxRetries

PermanentCodes == {"MissingParameter", "InvalidParameterValue", "Unsupported"}

FallbackCodes == {"InsufficientInstanceCapacity", "SpotMaxPriceTooLow"}

\* C5: after a spot run_instances call has failed with
\* InsufficientInstanceCapacity or SpotMaxPriceTooLow the loop goes on, and
\* the next run_instances call is given the on-demand request (no market
\* options) with the attempt counter at 0.
C5_SpotFailureFallsBackToOnDemand ==
    /\ []((err \in FallbackCodes /\ last_request.MarketType = "spot") =>
            /\ pc = "create"
            /\ retcount = 0
            /\ create_specs.MarketType = None)
    /\ [][(/\ err \in FallbackCodes
           /\ last_request.MarketType = "spot"
           /\ creates' = creates + 1) =>
                /\ last_request'.MarketType = None
                /\ last_request' = specs
                /\ retcount = 0]_vars

\* a spot attempt failed for capacity after earlier spot attempts had been
\* retried, so that the counter was above 0 before the reset
C5_Witness ==
    /\ err \in FallbackCodes
    /\ last_request.MarketType = "spot"
    /\ creates > 2
    /\ retcount = 0

\* C6: the attempt counter of the create loop is reset only when the
\* provisioner changes state (spot to on-demand).
C6_ResetOnlyOnTransition ==
    [][(pc = "create" /\ retcount > 0 /\ retcount' = 0) =>
            create_specs' # create_specs]_vars

\* C7: when every sample of a cpu-count is absent, the aggregation appends a
\* row with an absent score and raises nothing.
C7_AllAbsentGivesAbsentRow ==
    [][(pc = "aggr" /\ \A k \in DOMAIN scores : scores[k] = NoScore) =>
            /\ ret' # "raised"
            /\ results' = Append(results, Row(instance, bench, i, NoScore))]_vars

RowsFor(b, cpu) ==
    {k \in DOMAIN results : /\ results[k].benchmark_id = b
                            /\ results[k].benchmark_cpus = cpu}

ExpectedSweep(b) ==
    IF benchmarks[b].cpus # <<>>
    THEN {benchmarks[b].cpus[k] : k \in DOMAIN benchmarks[b].cpus}
    ELSE 1..instance.vcpu

Runnable ==
    {b \in {benchmarks_to_run[k] : k \in DOMAIN benchmarks_to_run} :
        instance.cpu_arch \in benchmarks[b].images}

\* C8: a run that returns its rows has, for every benchmark of
\* benchmarks_to_run with an image for the architecture, exactly one row for
\* each cpu-count of its sweep (the explicit cpus list, else 1..vcpu), and no
\* other row.
C8_OneRowPerCpuCount ==
    (Returned /\ ret = "DataFrame") =>
        /\ \A b \in Runnable : \A cpu \in ExpectedSweep(b) :
                Cardinality(RowsFor(b, cpu)) = 1
        /\ \A k \in DOMAIN results :
                /\ results[k].benchmark_id \in Runnable
                /\ results[k].benchmark_cpus \in
                        ExpectedSweep(results[k].benchmark_id)

\* a completed run on a 2-cpu instance with the default sweep of bA and the
\* explicit sweep <<1, 4>> of bB
C8_Witness ==
    /\ Returned
    /\ ret = "DataFrame"
    /\ instance.vcpu = 2
    /\ RowsFor("bA", 2) # {}
    /\ RowsFor("bB", 4) # {}
    /\ RowsFor("bB", 2) = {}

\* C9: every cpu-count's aggregation is given exactly `iterations` samples,
\* one for each run of the command.
C9_OneSamplePerIteration ==
    pc = "aggr" => Len(scores) = Iterations(benchmarks[bench])

\* C10: get_benchmarks_to_run drops a benchmark if and only if perf_df has a
\* row of the instance type and that benchmark whose age is below expire.
C10_DroppedIffFresh ==
    fpc = "filtered" =>
        \A b \in Range(BenchNames) :
            (b \notin {benchmarks_to_run[k] : k \in DOMAIN benchmarks_to_run})
            <=> (\E r \in perf_df.rows : /\ r.instanceType = instance.instanceType
                                         /\ r.benchmark_id = b
                                         /\ r.age < expire)

ExecPcs == {"quiesce", "pull", "iter"}

\* C12: get_ssh_connection tries again after every connection exception
\* while the timeout has not elapsed and gives None only when the timeout
\* elapsed with no attempt having succeeded; run_benchmarks then makes its
\* one terminate call and returns None having issued no remote command and
\* built no row.  A remote command is only ever issued on a connection.
C12_NoSessionNoCommands ==
    [][/\ (pc = "connect" /\ pc' = "connect") =>
              /\ elapsed' > elapsed
              /\ elapsed' < ssh_get_conn_timeout
              /\ ssh' = None
       /\ (pc = "connect" /\ pc' = "returned") =>
              /\ \E d \in ConnectCosts : elapsed + d >= ssh_get_conn_timeout
              /\ ssh' = None
              /\ ret' = None
              /\ terminates' = terminates + 1
              /\ results' = <<>> /\ bench' = None /\ todo' = <<>>
       /\ (pc = "connect" /\ pc' \notin {"connect", "returned"}) =>
              (ssh' = "ssh" /\ pc' = "quiesce")
       /\ (pc' \in ExecPcs) => (ssh' = "ssh")
       /\ (ssh = "ssh") => (ssh' = "ssh")]_vars

C12_Witness ==
    /\ pc = "returned" /\ ret = None
    /\ ec2_inst # None /\ ssh = None
    /\ terminates = 1

\* the instance types with an on-demand offer whose applicable benchmarks
\* are not all fresh
EligibleTypes ==
    {o.instanceType :
        o \in {x \in Range(prices_df) :
                  /\ ~x.spot
                  /\ BenchmarksFor(x, perf_df, update, expire) # <<>>}}

\* C13: the argument lists handed to the pool are exactly one per distinct
\* instance type that has an on-demand offer and a non-empty set of
\* benchmarks to run: none for a spot row, a duplicate of a type or a type
\* with nothing to run, and one for every other on-demand type.
C13_OnePipelinePerEligibleType ==
    (fpc # "start") =>
        /\ {a.instance.instanceType : a \in Range(bench_args)} = EligibleTypes
        /\ Len(bench_args) = Cardinality(EligibleTypes)
        /\ \A a \in Range(bench_args) : ~a.instance.spot

\* C14: when get_ec2_performance ends and no pipeline raised, its output is
\* a result holding the rows of the dispatched pipelines that returned rows
\* and nothing else; it is the empty result, not an error, when no offer
\* was eligible or when every pipeline returned no result.
C14_OutputIsUnionOfRows ==
    (fpc = "returned" /\ ret # "raised") =>
        output = [kind |-> "DataFrame",
                  rows |-> IF bench_args # <<>> /\ ret = "DataFrame"
                           THEN results ELSE <<>>]

\* the stages that repeat their command: quiesce and image pull
RetriedStages == {"quiesce", "pull"}

\* C15: a retried stage (the quiesce command, the pull of one benchmark's
\* image) issues its command at most 4 times, issues it again only after
\* a non-zero exit, stops at the first exit status 0, and after 4 non-zero
\* exits goes on to the next stage with the pipeline still running.
C15_StageRetriesBounded ==
    [][(pc \in RetriedStages) =>
        /\ i < 4
        /\ (pc' = pc) => (ec' # 0 /\ i' = i + 1 /\ i' < 4)
        /\ (pc' = "returned") => (ret' = "raised" /\ ec' = ec)
        /\ (pc' \notin {pc, "returned"}) =>
              /\ ec' = 0 \/ i = 3
              /\ ret' = "running"
              /\ pc' \in (IF pc = "quiesce" THEN {"bench"}
                          ELSE {"iter", "aggr", "bench"})
        /\ (ec' = 0 /\ pc' # "returned") => (pc' # pc)]_vars

C15_Witness ==
    /\ pc = "bench" /\ bench = None
    /\ i = 3 /\ ec # 0
    /\ ret = "running"

\* the moves between the stages of one pipeline that keep the stage order
StageOrder ==
    {<<"start", "create">>, <<"create", "create">>, <<"create", "wait">>,
     <<"wait", "key">>, <<"key", "connect">>, <<"connect", "connect">>,
     <<"connect", "quiesce">>, <<"quiesce", "quiesce">>,
     <<"quiesce", "bench">>, <<"bench", "bench">>, <<"bench", "pull">>,
     <<"pull", "pull">>, <<"pull", "iter">>, <<"pull", "aggr">>,
     <<"pull", "bench">>, <<"iter", "iter">>, <<"iter", "aggr">>,
     <<"aggr", "iter">>, <<"aggr", "aggr">>, <<"aggr", "bench">>}
        \cup {<<p, "returned">> : p \in {"create", "key", "connect", "quiesce",
                                         "bench", "pull", "iter", "aggr"}}

\* C16: within one pipeline the instance is created before the session is
\* opened, the session is opened before the quiesce command, quiescing is
\* over before the first image pull, the pull of a benchmark's image is
\* over before its first iteration, and the terminate call comes after the
\* last remote command; the pipeline is at one stage at a time.
C16_StagesInOrder ==
    [][/\ <<pc, pc'>> \in StageOrder
       /\ (creates' # creates) => (pc = "create" /\ ssh = None)
       /\ (ec2_inst' # ec2_inst) => (pc = "create" /\ pc' = "wait")
       /\ (ssh' # ssh) =>
              (pc = "connect" /\ pc' = "quiesce" /\ ec2_inst # None)
       /\ (ec' # ec) => (pc \in ExecPcs /\ ssh = "ssh")
       /\ (bench' # bench) => (pc = "bench")
       /\ (pc' = "iter") => (bench' = bench /\ pc \in {"pull", "iter", "aggr"})
       /\ (terminates' # terminates) =>
              (terminates = 0 /\ pc' = "returned" /\ ec2_inst # None)]_vars

C16_Witness ==
    /\ pc = "returned" /\ ret = "DataFrame"
    /\ Len(results) >= 2
    /\ ec \in {0, 1}
    /\ terminates = 1

\* the positions of run_benchmarks inside the sweep of one benchmark
SweepPcs == {"iter", "aggr"}

\* C17 as stated: the cpu sweep of a benchmark runs in ascending cpu-count
\* order, for the default sweep and for any explicit cpu list: every
\* cpu-count the sweep has been through is smaller than the one it is at.
C17_SweepAscending ==
    (pc \in SweepPcs) => \A k \in 1..(ci - 1) : cpulist[k] < i

\* C17 amended: the sweep runs the cpu-counts in the order of the cpu list,
\* which is ascending for the default sweep 1..vcpu and the order written
\* for an explicit list, and all iterations of one cpu-count are over
\* before the next cpu-count starts.
C17_SweepInListOrder ==
    [][/\ (pc' \in SweepPcs) =>
              /\ cpulist' = IF benchmarks[bench'].cpus # <<>>
                            THEN benchmarks[bench'].cpus
                            ELSE [k \in 1..instance.vcpu |-> k]
              /\ ci' \in DOMAIN cpulist'
              /\ i' = cpulist'[ci']
              /\ (benchmarks[bench'].cpus = <<>>) =>
                    (\A k \in 1..(ci' - 1) : cpulist'[k] < i')
       /\ (pc \in SweepPcs /\ ci' # ci) =>
              /\ pc = "aggr"
              /\ ci' = ci + 1
              /\ it = Iterations(benchmarks[bench])
       /\ (pc \in SweepPcs /\ pc' \in SweepPcs /\ ci' = ci) =>
              (pc = "iter" /\ it' = it + 1 /\ i' = i)]_vars

\* the explicit list <<2, 1>> of bC at its second cpu-count, the row of the
\* first one appended
C17_Witness ==
    /\ pc = "aggr" /\ bench = "bC"
    /\ ci = 2 /\ i = 1
    /\ \E k \in DOMAIN results :
          results[k].benchmark_id = "bC" /\ results[k].benchmark_cpus = 2

\* the benchmarks the loop of line 488 has been through and left out for
\* want of an image
Skipped ==
    IF bench = None THEN {}
    ELSE {benchmarks_to_run[k] :
            k \in {n \in 1..(Len(benchmarks_to_run) - Len(todo)) :
                     instance.cpu_arch
                        \notin benchmarks[benchmarks_to_run[n]].images}}

\* C18: a benchmark with no image for the architecture of the instance has
\* no pull, no iteration and no row; the run it was left out of still ends
\* with a row for every other benchmark that has an image and with the
\* instance terminated.
C18_SkipLeavesRestIntact ==
    /\ \A k \in DOMAIN results : results[k].benchmark_id \notin Skipped
    /\ (pc \in {"pull", "iter", "aggr"}) => (bench \notin Skipped)
    /\ (Returned /\ Skipped # {}) =>
          /\ terminates = 1
          /\ \A b \in Runnable : \E k \in DOMAIN results :
                results[k].benchmark_id = b

\* C19: once the instance is created, a waiter that fails or times out
\* does not end the pipeline: it goes on towards the ssh connection with the
\* same instance, and however the run then ends the instance has had its
\* one terminate call.
C19_WaiterFailureTolerated ==
    (waiter = "failed") =>
        /\ ec2_inst = "i-1"
        /\ pc # "wait"
        /\ Returned => terminates = 1

C21_OneInstancePerPipeline ==
    [][/\ (ec2_inst # None) => (creates' = creates /\ ec2_inst' = ec2_inst)
       /\ (ec2_inst' # ec2_inst) => (err' = "ok" /\ creates' = creates + 1)
       /\ (terminated' # terminated) =>
              /\ ec2_inst # None
              /\ terminated' = Append(terminated, ec2_inst)
       /\ \A k \in DOMAIN terminated' : terminated'[k] = "i-1"]_vars

\* a run whose first run_instances call failed, whose second succeeded and
\* which has terminated the instance
C21_Witness ==
    /\ Returned
    /\ creates = 2 /\ ec2_inst = "i-1"
    /\ terminated = <<"i-1">>

\* the fields of a request other than its market options
CommonFields == {"ImageId", "Encrypted", "InstanceType", "CpuCredits"}

\* C22: the first run_instances call of a pipeline is given the spot
\* request; once the loop has switched to the on-demand request it stays
\* with it, so no later call is given spot market options; and every call
\* is given a request that equals the on-demand request in every field
\* other than the market options.
C22_MarketStateMonotone ==
    [][/\ (creates = 0 /\ creates' = 1) =>
              (last_request'.MarketType = "spot")
       /\ (creates > 0 /\ creates' # creates
                /\ last_request.MarketType = None) =>
              (last_request'.MarketType = None)
       /\ (pc = "create" /\ create_specs.MarketType = None) =>
              (create_specs'.MarketType = None)
       /\ (creates' # creates) =>
              /\ last_request'.MarketType \in {"spot", None}
              /\ specs.MarketType = None
              /\ \A f \in CommonFields : last_request'[f] = specs[f]]_vars

\* the loop is on the on-demand request and its last call, an on-demand
\* one made after the switch, was answered with a rate limit
C22_Witness ==
    /\ pc = "create"
    /\ creates >= 3
    /\ create_specs.MarketType = None
    /\ last_request.MarketType = None
    /\ err = "RequestLimitExceeded"
====
